---- MODULE Spec2Model ----
(***************************************************************************)
(* gpsagent: the TruePosition GPSDO management agent.                      *)
(*                                                                         *)
(* The model follows the package src/trueposition: the serial protocol     *)
(* (uart.py), the device state tracker and its message handler (state.py)  *)
(* and the output writers (nmea_writer.py, sat_writer.py, shm_writer.py),  *)
(* all running as cooperative tasks on one asyncio event loop.             *)
(*                                                                         *)
(* Text is modelled at the level of characters: a Python str is a sequence *)
(* of one-character strings.  The serial stream is ASCII (the device       *)
(* protocol), so a decoded chunk is the sequence of its bytes.             *)
(***************************************************************************)
EXTENDS Integers, Sequences, FiniteSets, TLC

VARIABLES
    cur,          \* TruePositionUART._cur
    messages,     \* TruePositionUART._messages
    tpstate_set,  \* TruePositionUART._tpstate is not None
    ready,        \* event loop: the enqueue_message tasks made by ensure_future, not yet run
    msg_queue,    \* TruePositionState._msg_queue
    tp,           \* the fields of TruePositionState
    handler,      \* the _handle_messages task: "new", "running" or "dead"
    out_queue,    \* per output: its _msg_queue
    writer,       \* per output: its _writer task, "new", "running" or "dead"
    cmd_queue,    \* TruePositionUART._cmd_queue
    wire,         \* the device: what is left to send of the line it is sending
    nlines,       \* the device: the number of lines it has started to send
    stream,       \* history: every character handed to data_received so far
    applied,      \* history: one record per message taken by _handle_messages
    consumed,     \* history: per output, the events its _writer has taken
    now,          \* the clock: time.time() and the time of the loop, in seconds
    sender,       \* the _send_queued_messages task: "new", "waiting" or "sleeping"
    sender_wake,  \* the time at which the sleep of the sender is over
    written,      \* history: what transport.write was given, and when
    cmd_log,      \* history: every command put on _cmd_queue, in the order of the puts
    timer_wake,   \* the time at which the sleep of _request_location_update is over
    ticks,        \* history: one record per wake-up of _request_location_update
    last_zda,     \* TruePositionNMEAWriter._last_zda
    last_gps_msg, \* TruePositionNMEAWriter._last_gps_msg
    out_file,     \* per output: what it has written to its file (or given to the SHM)
    flushed,      \* per output: how much of out_file has been flushed
    emitted,      \* history: per output and pass of its _writer, when it ran and what it wrote
    responses,    \* history: the status documents the HTTP API has served
    loop,         \* the event loop: "running" in run_forever, "stopped" after stop()
    transport,    \* the serial transport: "open", or "lost" once connection_lost was called
    nmea_body,    \* the body given to __format_nmea_msg
    sentence      \* what __format_nmea_msg returned for it, <<>> before the call

senderVars == <<sender, sender_wake, written>>
timerVars == <<timer_wake, ticks>>
sinkVars == <<last_zda, last_gps_msg, out_file, flushed, emitted>>
loopVars == <<loop, transport>>
formatVars == <<nmea_body, sentence>>

vars == <<cur, messages, tpstate_set, ready, msg_queue, tp, handler, out_queue,
          writer, cmd_queue, wire, nlines, stream, applied, consumed, now,
          cmd_log, senderVars, timerVars, sinkVars, responses, loopVars, formatVars>>

-----------------------------------------------------------------------------
(* Bounds of the model. *)

\* the number of lines the device sends
MaxLines == 2
\* the size of a partial read of the line being sent
ChunkLen == 6
\* the length of the raw stream of the framing specification
MaxStream == 6
\* the longest chunk of the raw stream
MaxChunk == 3
\* the number of lines the device sends in the specification of the sender
MaxSenderLines == 2
\* the number of wake-ups of the position timer
MaxTimerTicks == 2
\* the number of lines the device sends in the specification of the status
MaxStatusLines == 3
\* the number of requests made to the HTTP API
MaxReads == 2
\* the number of lines the device sends in the specification of the reads
MaxReadLines == 2
\* the number of lines the device sends in the specification of the diagnostics
MaxDiagLines == 3
\* the number of lines the device sends in the specification of the loss
MaxLossLines == 3
\* the length of the longest sentence body that is formatted
MaxBody == 3
\* the number of lines the device sends in the specification of the outputs
MaxSinkLines == 3
\* the ZDA intervals that go by in the specification of the outputs
MaxZdaIntervals == 1

-----------------------------------------------------------------------------
(* Python values. *)

CR == "\r"
LF == "\n"
SP == " "

\* Optional values: None, or a value.  (v is a placeholder of the value's
\* type when there is none, so that values stay comparable.)
NoStr == [some |-> FALSE, v |-> <<>>]
NoInt == [some |-> FALSE, v |-> 0]
Some(x) == [some |-> TRUE, v |-> x]

\* the characters str.strip() removes (those that occur in the model)
Whitespace == {" ", "\t", "\n", "\r"}

Digits == <<"0", "1", "2", "3", "4", "5", "6", "7", "8", "9">>

DigitVal(c) == (CHOOSE i \in 1..10 : Digits[i] = c) - 1

IsDigit(c) == \E i \in 1..10 : Digits[i] = c

RECURSIVE lstrip(_)
lstrip(s) ==
    IF s # <<>> /\ Head(s) \in Whitespace THEN lstrip(Tail(s)) ELSE s

RECURSIVE rstrip(_)
rstrip(s) ==
    IF s # <<>> /\ s[Len(s)] \in Whitespace THEN rstrip(SubSeq(s, 1, Len(s) - 1)) ELSE s

\* str.strip()
strip(s) == rstrip(lstrip(s))

\* str.startswith(prefix)
startswith(s, prefix) ==
    Len(s) >= Len(prefix) /\ SubSeq(s, 1, Len(prefix)) = prefix

\* sub in s
contains(s, sub) ==
    \E i \in 1..(Len(s) - Len(sub) + 1) : SubSeq(s, i, i + Len(sub) - 1) = sub

\* str.split(' '): the fields between single spaces (empty fields are kept)
RECURSIVE split(_)
split(s) ==
    IF \A i \in 1..Len(s) : s[i] # SP
    THEN <<s>>
    ELSE LET i == CHOOSE k \in 1..Len(s) : s[k] = SP /\ \A j \in 1..(k - 1) : s[j] # SP
         IN  <<SubSeq(s, 1, i - 1)>> \o split(SubSeq(s, i + 1, Len(s)))

RECURSIVE DecValue(_)
DecValue(s) ==
    IF s = <<>> THEN 0 ELSE 10 * DecValue(SubSeq(s, 1, Len(s) - 1)) + DigitVal(s[Len(s)])

\* int(s) and float(s) of a field: surrounding whitespace is ignored, one
\* leading sign is allowed, the rest must be decimal digits; anything else
\* raises ValueError (ok = FALSE).  The numeric fields of the model are
\* integers, and float(s) of such a field is the same number.
py_int(s) ==
    LET t == strip(s)
        neg == t # <<>> /\ Head(t) = "-"
        d == IF t # <<>> /\ Head(t) \in {"-", "+"} THEN Tail(t) ELSE t
    IN  IF d # <<>> /\ \A i \in 1..Len(d) : IsDigit(d[i])
        THEN [ok |-> TRUE, v |-> IF neg THEN 0 - DecValue(d) ELSE DecValue(d)]
        ELSE [ok |-> FALSE, v |-> 0]

py_float(s) == py_int(s)

\* float(s)/1e6: a position in degrees, kept as the exact fraction
Micro(n) == [num |-> n, den |-> 1000000]

-----------------------------------------------------------------------------
(* uart.py: framing of the inbound stream. *)

\* data_received, lines 35-43: the loop over the characters of one chunk
RECURSIVE ScanChars(_, _, _)
\* the loop without the branch that eats LF
RECURSIVE ScanChars_keepLF(_, _, _)
ScanChars_keepLF(data, c, msgs) ==
    IF data = <<>> THEN [cur |-> c, messages |-> msgs]
    ELSE IF Head(data) = CR THEN ScanChars_keepLF(Tail(data), <<>>, Append(msgs, c))
    ELSE ScanChars_keepLF(Tail(data), Append(c, Head(data)), msgs)

ScanChars(data, c, msgs) ==
    IF data = <<>> THEN [cur |-> c, messages |-> msgs]
    ELSE IF Head(data) = CR THEN ScanChars(Tail(data), <<>>, Append(msgs, c))
    ELSE IF Head(data) = LF THEN ScanChars(Tail(data), c, msgs)
    ELSE ScanChars(Tail(data), Append(c, Head(data)), msgs)

\* data_received, lines 46-48: the messages of the list that are forwarded
\* (those that are not blank), stripped
Forwarded(msgs) ==
    LET stripped == [i \in 1..Len(msgs) |-> strip(msgs[i])]
    IN  SelectSeq(stripped, LAMBDA m : m # <<>>)

\* data_received: one call.  Forwarding a message makes a task of
\* enqueue_message (ensure_future); with no state tracker set yet, the first
\* message to forward raises (None has no enqueue_message) before anything
\* is forwarded, and the list is kept.
data_received(data) ==
    \E scan \in {ScanChars(data, cur, messages)} : \E fwd \in {Forwarded(scan.messages)} :
        /\ cur' = scan.cur
        /\ stream' = stream \o data
        /\ IF fwd # <<>> /\ ~tpstate_set
           THEN /\ messages' = scan.messages
                /\ ready' = ready
           ELSE /\ messages' = <<>>
                /\ ready' = ready \o fwd

-----------------------------------------------------------------------------
(* state.py: the device state and the handlers of the message kinds. *)

kGPS_EPOCH_DELTA == 315964800

\* TruePositionState.__init__.  _wallclock and _leap_seconds start as empty
\* dicts, not numbers (some = FALSE); the firmware identity starts as None.
InitState ==
    [ sats |-> <<>>,
      sats_order |-> <<>>,
      wallclock |-> NoInt,
      leap_seconds |-> NoInt,
      quality |-> 9,
      is_survey |-> FALSE,
      nr_sat_signals |-> 0,
      tdop |-> 0,
      temperature |-> 0,
      geo |-> <<Micro(0), Micro(0)>>,
      elev |-> 0,
      elev_corr |-> 0,
      mhz10_bad |-> FALSE,
      pps1_bad |-> FALSE,
      antenna_bad |-> FALSE,
      holdover_sec |-> 0,
      nr_tracked_sats |-> 0,
      state |-> 0 - 1,
      firmware_version |-> NoStr,
      firmware_serial |-> NoStr,
      is_active |-> FALSE,
      in_bootloader |-> FALSE,
      survey_secs |-> 0 ]

\* What a handler leaves: the state with the assignments made so far, whether
\* it raised (IndexError, ValueError or TypeError), and what it returned.
Return(st, ret) == [st |-> st, exc |-> FALSE, ret |-> ret]
\* an exception that is caught where it is raised
Raise_caught(st) == [st |-> st, exc |-> FALSE, ret |-> <<>>]
Raise(st) == [st |-> st, exc |-> TRUE, ret |-> <<>>]

\* int(fields[i]) and float(fields[i]), i counted from 0: not ok when the
\* list is too short (IndexError) or the field is no number (ValueError)
IntAt(fields, i) ==
    IF Len(fields) > i THEN py_int(fields[i + 1]) ELSE [ok |-> FALSE, v |-> 0]

FloatAt(fields, i) ==
    IF Len(fields) > i THEN py_float(fields[i + 1]) ELSE [ok |-> FALSE, v |-> 0]

\* epoch_time without the leap seconds
epoch_time_noleap(st) ==
    IF st.leap_seconds.some /\ st.wallclock.some
    THEN [ok |-> TRUE, v |-> kGPS_EPOCH_DELTA + st.wallclock.v]
    ELSE [ok |-> FALSE, v |-> 0]

\* the property epoch_time: adding a number to the initial empty dict raises
\* TypeError (ok = FALSE)
epoch_time(st) ==
    IF st.leap_seconds.some /\ st.wallclock.some
    THEN [ok |-> TRUE, v |-> (kGPS_EPOCH_DELTA + st.leap_seconds.v) + st.wallclock.v]
    ELSE [ok |-> FALSE, v |-> 0]

\* _encode_gps_state, called once epoch_time is a number
_encode_gps_state(st) ==
    [ time |-> epoch_time(st).v,
      nrTrackedSats |-> st.nr_tracked_sats,
      elevMetres |-> st.elev,
      latitude |-> st.geo[1],
      longitude |-> st.geo[2],
      geoidOffs |-> st.elev_corr,
      goodFix |-> (st.state = 0),
      nrSats |-> st.nr_tracked_sats ]

\* _encode_state that always has the key surveySeconds
_encode_state_always(st) ==
    [ gpsEpoch |-> st.wallclock,
      leapSeconds |-> st.leap_seconds,
      timeQuality |-> st.quality,
      isBooted |-> st.is_active,
      isSurvey |-> st.is_survey,
      extParams |-> [ nrSignals |-> st.nr_sat_signals,
                      tdop |-> st.tdop,
                      temperatureC |-> st.temperature ],
      location |-> [ lat |-> st.geo[1],
                     lon |-> st.geo[2],
                     elevMetres |-> st.elev,
                     elevCorrWGS84 |-> st.elev_corr ],
      tenMhzBad |-> st.mhz10_bad,
      onePPSBad |-> st.pps1_bad,
      antennaBad |-> st.antenna_bad,
      holdoverSec |-> st.holdover_sec,
      trackedSats |-> [i \in 1..Len(st.sats_order) |-> st.sats[st.sats_order[i]]],
      nrTrackedSats |-> st.nr_tracked_sats,
      state |-> st.state,
      firmwareVersion |-> st.firmware_version,
      firmwareSerial |-> st.firmware_serial,
      surveySeconds |-> st.survey_secs ]

\* _encode_state: the status document.  _sats is a dict, whose values() come
\* in the order in which the keys were first set (sats_order); the key
\* surveySeconds is set only when _is_survey.
_encode_state(st) ==
    LET state == [ gpsEpoch |-> st.wallclock,
                   leapSeconds |-> st.leap_seconds,
                   timeQuality |-> st.quality,
                   isBooted |-> st.is_active,
                   isSurvey |-> st.is_survey,
                   extParams |-> [ nrSignals |-> st.nr_sat_signals,
                                   tdop |-> st.tdop,
                                   temperatureC |-> st.temperature ],
                   location |-> [ lat |-> st.geo[1],
                                  lon |-> st.geo[2],
                                  elevMetres |-> st.elev,
                                  elevCorrWGS84 |-> st.elev_corr ],
                   tenMhzBad |-> st.mhz10_bad,
                   onePPSBad |-> st.pps1_bad,
                   antennaBad |-> st.antenna_bad,
                   holdoverSec |-> st.holdover_sec,
                   trackedSats |-> [i \in 1..Len(st.sats_order) |->
                                       st.sats[st.sats_order[i]]],
                   nrTrackedSats |-> st.nr_tracked_sats,
                   state |-> st.state,
                   firmwareVersion |-> st.firmware_version,
                   firmwareSerial |-> st.firmware_serial ]
    IN  IF st.is_survey
        THEN [k \in DOMAIN state \cup {"surveySeconds"} |->
                 IF k = "surveySeconds" THEN st.survey_secs ELSE state[k]]
        ELSE state

\* a get_state that answers with a document made once, at the start
get_state_cached(st) == _encode_state(InitState)

get_state(st) == _encode_state(st)

BOOT == <<"B", "O", "O", "T">>

\* _getver that leaves _is_active as it was when the device is in its
\* bootloader
_getver_boot_active(st, msg) ==
    IF contains(msg, BOOT)
    THEN Return([st EXCEPT !.in_bootloader = TRUE], <<>>)
    ELSE LET fields == split(msg) IN
         IF Len(fields) <= 1 THEN Raise(st) ELSE
         LET s1 == [st EXCEPT !.firmware_version = Some(fields[2])] IN
         IF Len(fields) <= 6 THEN Raise(s1) ELSE
         Return([s1 EXCEPT !.firmware_serial = Some(fields[7]), !.is_active = TRUE], <<>>)

\* _getver that keeps an identity it already has
_getver_once(st, msg) ==
    IF contains(msg, BOOT)
    THEN Return([st EXCEPT !.in_bootloader = TRUE, !.is_active = FALSE], <<>>)
    ELSE LET fields == split(msg)
             keep == st.firmware_version.some /\ st.firmware_serial.some
         IN
         IF Len(fields) <= 1 THEN Raise(st) ELSE
         LET s1 == IF keep THEN st ELSE [st EXCEPT !.firmware_version = Some(fields[2])] IN
         IF Len(fields) <= 6 THEN Raise(s1) ELSE
         IF keep THEN Return([s1 EXCEPT !.is_active = TRUE], <<>>) ELSE
         Return([s1 EXCEPT !.firmware_serial = Some(fields[7]), !.is_active = TRUE], <<>>)

_getver(st, msg) ==
    IF contains(msg, BOOT)
    THEN Return([st EXCEPT !.in_bootloader = TRUE, !.is_active = FALSE], <<>>)
    ELSE LET fields == split(msg) IN
         IF Len(fields) <= 1 THEN Raise(st) ELSE
         LET s1 == [st EXCEPT !.firmware_version = Some(fields[2])] IN
         IF Len(fields) <= 6 THEN Raise(s1) ELSE
         Return([s1 EXCEPT !.firmware_serial = Some(fields[7]), !.is_active = TRUE], <<>>)

_clock(st, msg) ==
    LET s0 == [st EXCEPT !.is_active = TRUE]
        fields == split(msg)
        w == IntAt(fields, 1)
        l == IntAt(fields, 2)
        q == IntAt(fields, 3)
    IN  IF ~w.ok THEN Raise(s0) ELSE
        LET s1 == [s0 EXCEPT !.wallclock = Some(w.v)] IN
        IF ~l.ok THEN Raise(s1) ELSE
        LET s2 == [s1 EXCEPT !.leap_seconds = Some(l.v)] IN
        IF ~q.ok THEN Raise(s2) ELSE
        Return([s2 EXCEPT !.quality = q.v], <<>>)

_sat(st, msg) ==
    LET s0 == [st EXCEPT !.is_active = TRUE]
        fields == split(msg)
        channel == IntAt(fields, 1)
        satId == IntAt(fields, 2)
        el == IntAt(fields, 3)
        az == IntAt(fields, 4)
        snr == IntAt(fields, 5)
        lastSeen == epoch_time(s0)
    IN  IF ~(channel.ok /\ satId.ok /\ el.ok /\ az.ok /\ snr.ok /\ lastSeen.ok)
        THEN Raise(s0)
        ELSE LET sat_info == [ satId |-> satId.v, el |-> el.v, az |-> az.v,
                               snr |-> snr.v, lastSeen |-> lastSeen.v,
                               slotId |-> channel.v ]
             IN  Return([s0 EXCEPT !.sats =
                            [c \in DOMAIN s0.sats \cup {channel.v} |->
                                IF c = channel.v THEN sat_info ELSE s0.sats[c]],
                                   !.sats_order =
                            IF channel.v \in DOMAIN s0.sats THEN @
                            ELSE Append(@, channel.v)],
                        sat_info)

_wsat(st, msg) == Return([st EXCEPT !.is_active = TRUE], <<>>)

\* a _default that marks the device active, as the other handlers do
_default_active(st, msg) == Return([st EXCEPT !.is_active = TRUE], <<>>)

\* _default only logs
_default(st, msg) == Return(st, <<>>)

_survey(st, msg) ==
    LET s0 == [st EXCEPT !.is_active = TRUE]
        fields == split(msg)
        lat == FloatAt(fields, 1)
        lon == FloatAt(fields, 2)
        elev == FloatAt(fields, 3)
        corr == FloatAt(fields, 4)
        secs == IntAt(fields, 5)
    IN  IF ~(lat.ok /\ lon.ok /\ elev.ok) THEN Raise(s0) ELSE
        LET s1 == [s0 EXCEPT !.elev = elev.v] IN
        IF ~corr.ok THEN Raise(s1) ELSE
        LET s2 == [s1 EXCEPT !.elev_corr = corr.v] IN
        IF ~secs.ok THEN Raise(s2) ELSE
        Return([s2 EXCEPT !.survey_secs = secs.v,
                          !.geo = <<Micro(lat.v), Micro(lon.v)>>], <<>>)

_extstatus(st, msg) ==
    LET s0 == [st EXCEPT !.is_active = TRUE]
        fields == split(msg)
        survey == IntAt(fields, 1)
        nr == IntAt(fields, 2)
        tdop == FloatAt(fields, 3)
        temp == FloatAt(fields, 4)
    IN  IF ~(survey.ok /\ nr.ok /\ tdop.ok) THEN Raise(s0) ELSE
        LET s1 == [s0 EXCEPT !.tdop = tdop.v] IN
        IF ~temp.ok THEN Raise(s1) ELSE
        Return([s1 EXCEPT !.temperature = temp.v,
                          !.is_survey = (survey.v = 1),
                          !.nr_sat_signals = nr.v], <<>>)

\* _getpos that assigns the position and leaves the elevation as it was
_getpos_half(st, msg) ==
    LET s0 == [st EXCEPT !.is_active = TRUE]
        fields == split(msg)
        lat == FloatAt(fields, 1)
        lon == FloatAt(fields, 2)
    IN  IF ~(lat.ok /\ lon.ok) THEN Raise(s0) ELSE
        Return([s0 EXCEPT !.geo = <<Micro(lat.v), Micro(lon.v)>>], <<>>)

_getpos(st, msg) ==
    LET s0 == [st EXCEPT !.is_active = TRUE]
        fields == split(msg)
        lat == FloatAt(fields, 1)
        lon == FloatAt(fields, 2)
        elev == FloatAt(fields, 3)
        corr == FloatAt(fields, 4)
        state == IntAt(fields, 5)
    IN  IF ~(lat.ok /\ lon.ok /\ elev.ok) THEN Raise(s0) ELSE
        LET s1 == [s0 EXCEPT !.elev = elev.v] IN
        IF ~corr.ok THEN Raise(s1) ELSE
        LET s2 == [s1 EXCEPT !.elev_corr = corr.v] IN
        IF ~state.ok THEN Raise(s2) ELSE
        Return([s2 EXCEPT !.geo = <<Micro(lat.v), Micro(lon.v)>>], <<>>)

_status(st, msg) ==
    LET s0 == [st EXCEPT !.is_active = TRUE]
        fields == split(msg)
        ten == IntAt(fields, 1)
        pps == IntAt(fields, 2)
        ant == IntAt(fields, 3)
        hold == IntAt(fields, 4)
        nts == IntAt(fields, 5)
        state == IntAt(fields, 6)
    IN  IF ~(ten.ok /\ pps.ok /\ ant.ok /\ hold.ok) THEN Raise(s0) ELSE
        LET s1 == [s0 EXCEPT !.holdover_sec = hold.v] IN
        IF ~(nts.ok /\ state.ok) THEN Raise(s1) ELSE
        Return([s1 EXCEPT !.mhz10_bad = (ten.v # 0),
                          !.pps1_bad = (pps.v # 0),
                          !.antenna_bad = (ant.v # 0),
                          !.nr_tracked_sats = nts.v,
                          !.state = state.v], <<>>)

\* a line of the log of _status: what it is about and the old and new value
LogLine(about, from, to) == [about |-> about, from |-> from, to |-> to]

Bit(b) == IF b THEN 1 ELSE 0

\* the lines _status logs whatever the values were before
_status_info_level(st, msg) ==
    LET fields == split(msg)
        ten == IntAt(fields, 1)
        pps == IntAt(fields, 2)
        ant == IntAt(fields, 3)
        hold == IntAt(fields, 4)
        nts == IntAt(fields, 5)
        state == IntAt(fields, 6)
    IN  IF ~(ten.ok /\ pps.ok /\ ant.ok /\ hold.ok /\ nts.ok /\ state.ok) THEN <<>> ELSE
        << LogLine("10mhz", Bit(st.mhz10_bad), Bit(ten.v # 0)),
           LogLine("1pps", Bit(st.pps1_bad), Bit(pps.v # 0)),
           LogLine("antenna", Bit(st.antenna_bad), Bit(ant.v # 0)),
           LogLine("sats", st.nr_tracked_sats, nts.v),
           LogLine("state", st.state, state.v) >>

\* the lines _status logs at level info: all fields are parsed first, then
\* each new value is compared with the stored one, and those that differ are
\* logged, in this order
_status_info(st, msg) ==
    LET fields == split(msg)
        ten == IntAt(fields, 1)
        pps == IntAt(fields, 2)
        ant == IntAt(fields, 3)
        hold == IntAt(fields, 4)
        nts == IntAt(fields, 5)
        state == IntAt(fields, 6)
    IN  IF ~(ten.ok /\ pps.ok /\ ant.ok /\ hold.ok /\ nts.ok /\ state.ok) THEN <<>> ELSE
        (IF (ten.v # 0) # st.mhz10_bad
         THEN <<LogLine("10mhz", Bit(st.mhz10_bad), Bit(ten.v # 0))>> ELSE <<>>)
        \o (IF (pps.v # 0) # st.pps1_bad
            THEN <<LogLine("1pps", Bit(st.pps1_bad), Bit(pps.v # 0))>> ELSE <<>>)
        \o (IF (ant.v # 0) # st.antenna_bad
            THEN <<LogLine("antenna", Bit(st.antenna_bad), Bit(ant.v # 0))>> ELSE <<>>)
        \o (IF nts.v # st.nr_tracked_sats
            THEN <<LogLine("sats", st.nr_tracked_sats, nts.v)>> ELSE <<>>)
        \o (IF state.v # st.state
            THEN <<LogLine("state", st.state, state.v)>> ELSE <<>>)

-----------------------------------------------------------------------------
(* state.py: _handle_messages, one pass of its loop. *)

T_GETVER == <<"$", "G", "E", "T", "V", "E", "R">>
T_CLOCK == <<"$", "C", "L", "O", "C", "K">>
T_SAT == <<"$", "S", "A", "T">>
T_WSAT == <<"$", "W", "S", "A", "T">>
T_SURVEY == <<"$", "S", "U", "R", "V", "E", "Y">>
T_EXTSTATUS == <<"$", "E", "X", "T", "S", "T", "A", "T", "U", "S">>
T_GETPOS == <<"$", "G", "E", "T", "P", "O", "S">>
T_STATUS == <<"$", "S", "T", "A", "T", "U", "S">>
T_PROCEED == <<"$", "P", "R", "O", "C", "E", "E", "D">>

\* the branch of the if/elif chain of lines 232-261 a message takes
Kind(msg) ==
    IF startswith(msg, T_GETVER) THEN "getver"
    ELSE IF startswith(msg, T_CLOCK) THEN "clock"
    ELSE IF startswith(msg, T_SAT) THEN "sat"
    ELSE IF startswith(msg, T_WSAT) THEN "wsat"
    ELSE IF startswith(msg, T_SURVEY) THEN "survey"
    ELSE IF startswith(msg, T_EXTSTATUS) THEN "extstatus"
    ELSE IF startswith(msg, T_GETPOS) THEN "getpos"
    ELSE IF startswith(msg, T_STATUS) THEN "status"
    ELSE "default"

Handle(st, msg) ==
    LET k == Kind(msg)
    IN  IF k = "getver" THEN _getver(st, msg)
        ELSE IF k = "clock" THEN _clock(st, msg)
        ELSE IF k = "sat" THEN _sat(st, msg)
        ELSE IF k = "wsat" THEN _wsat(st, msg)
        ELSE IF k = "survey" THEN _survey(st, msg)
        ELSE IF k = "extstatus" THEN _extstatus(st, msg)
        ELSE IF k = "getpos" THEN _getpos(st, msg)
        ELSE IF k = "status" THEN _status(st, msg)
        ELSE _default(st, msg)

\* d['type'] = t
WithType(d, t) == [k \in DOMAIN d \cup {"type"} |-> IF k = "type" THEN t ELSE d[k]]

\* lines 239-240 and 246: the event a handled message makes, if any
EventsOf(h, msg) ==
    IF Kind(msg) = "clock" THEN <<WithType(_encode_gps_state(h.st), "gps")>>
    ELSE IF Kind(msg) = "sat" THEN <<WithType(h.ret, "sat")>>
    ELSE <<>>

\* line 246 writes 'type' into the dict that _sat stored in _sats as well
AfterEvent(h, msg) ==
    IF Kind(msg) = "sat"
    THEN [h.st EXCEPT !.sats[h.ret.slotId] = WithType(h.ret, "sat")]
    ELSE h.st

\* not x, for a str or None
Falsy(x) == IF x.some THEN x.v = <<>> ELSE TRUE

\* lines 263-266
BootCommands(st) == IF st.in_bootloader THEN <<T_PROCEED>> ELSE <<>>

\* lines 267-269
VersionCommands(st) ==
    IF st.is_active /\ (Falsy(st.firmware_serial) \/ Falsy(st.firmware_version))
    THEN <<T_GETVER>>
    ELSE <<>>

\* the pass of the loop without line 266
ClearBoot_forgot(st) == st

\* line 266
ClearBoot(st) == [st EXCEPT !.in_bootloader = FALSE]

\* One pass of the loop on msg: the state it leaves, whether it raised (which
\* ends the task), the events it put on every output and the commands it
\* enqueued, in order.
Dispatch(st, msg) ==
    CHOOSE r \in
        { IF h.exc
          THEN [st |-> h.st, exc |-> TRUE, evs |-> <<>>, cmds |-> <<>>]
          ELSE LET s1 == AfterEvent(h, msg)
                   s2 == ClearBoot(s1)
               IN  [st |-> s2, exc |-> FALSE, evs |-> EventsOf(h, msg),
                    cmds |-> BootCommands(s1) \o VersionCommands(s2)]
          : h \in {Handle(st, msg)} } : TRUE

-----------------------------------------------------------------------------
(* asyncio.Queue *)

\* asyncio.Queue() is made without a maxsize
maxsize == 0

\* full() of a queue made with maxsize=1
full_one(q) == Len(q) >= 1

\* Queue.full()
full(q) == IF maxsize <= 0 THEN FALSE ELSE Len(q) >= maxsize

\* Queue.put: waits while the queue is full, then appends
CanPut(q, items) == IF items = <<>> THEN TRUE ELSE ~full(q)

put(q, items) == q \o items

\* the loop over self._outputs of lines 241-242 and 247-248
Outputs == <<"nmea", "sat", "shm">>
OutputSet == {Outputs[i] : i \in 1..Len(Outputs)}

\* a loop that stops after the first output
FanOut_first(queues, evs) ==
    [o \in OutputSet |-> IF o = Outputs[1] THEN put(queues[o], evs) ELSE queues[o]]

FanOut(queues, evs) == [o \in OutputSet |-> put(queues[o], evs)]

-----------------------------------------------------------------------------
(* The device: the lines it may send.  Each is a field list joined by single *)
(* spaces, followed by its terminator.                                       *)

RECURSIVE Join(_)
Join(fields) ==
    IF Len(fields) = 1 THEN fields[1] ELSE fields[1] \o <<SP>> \o Join(Tail(fields))

Lines ==
    << Join(<<T_GETVER, BOOT>>) \o <<CR>>,
       Join(<<T_GETVER, <<"1">>, <<"a">>, <<"b">>, <<"c">>, <<"d">>, <<"7">> >>) \o <<CR, LF>>,
       Join(<<T_GETVER, <<"2">>, <<"a">>, <<"b">>, <<"c">>, <<"d">>, <<"8">> >>) \o <<CR>>,
       Join(<<T_GETVER, <<"3">> >>) \o <<CR>>,
       Join(<<T_CLOCK, <<"5">>, <<"2">>, <<"1">> >>) \o <<CR, LF>>,
       Join(<<T_CLOCK, <<"7">>, <<"3">>, <<"1">> >>) \o <<CR>>,
       Join(<<T_CLOCK, <<"9">> >>) \o <<CR>>,
       Join(<<T_SAT, <<"0">>, <<"5">>, <<"3">>, <<"2">>, <<"4">> >>) \o <<CR>>,
       Join(<<T_SAT, <<"0">> >>) \o <<CR>>,
       Join(<<T_WSAT, <<"1">> >>) \o <<CR>>,
       Join(<<T_SURVEY, <<"1">>, <<"2">>, <<"3">>, <<"4">>, <<"5">> >>) \o <<CR>>,
       Join(<<T_EXTSTATUS, <<"1">>, <<"2">>, <<"3">>, <<"4">> >>) \o <<CR>>,
       Join(<<T_GETPOS, <<"6">>, <<"7">>, <<"8">>, <<"9">>, <<"0">> >>) \o <<CR>>,
       Join(<<T_STATUS, <<"0">>, <<"1">>, <<"0">>, <<"0">>, <<"3">>, <<"0">> >>) \o <<CR>>,
       <<"$", "F", "O", "O", CR>>,
       <<SP, CR>> >>

\* the raw stream of the framing specification
RawChars == {CR, LF, SP, "a"}

RECURSIVE SeqsUpTo(_, _)
SeqsUpTo(S, n) ==
    IF n = 0 THEN {<<>>}
    ELSE LET shorter == SeqsUpTo(S, n - 1)
         IN  shorter \cup {Append(s, c) : s \in shorter, c \in S}

RawChunks == SeqsUpTo(RawChars, MaxChunk) \ {<<>>}

-----------------------------------------------------------------------------
(* The outputs: what one pass of a _writer loop writes. *)

\* zda_interval_sec=60 of TruePositionNMEAWriter.__init__
zda_interval_sec == 60

NoMsg == [some |-> FALSE]

\* time.gmtime(t): the time of day of t, and its date as the number of the day
gmtime(t) ==
    [ tm_hour |-> (t \div 3600) % 24,
      tm_min |-> (t \div 60) % 60,
      tm_sec |-> t % 60,
      tm_day |-> t \div 86400 ]

\* abs(x) of a position
Abs(x) == IF x < 0 THEN 0 - x ELSE x

\* __format_gps: the fields of the GPGGA sentence
format_gps(msg) ==
    LET gmt == gmtime(msg.time)
        lat == msg.latitude
        lon == msg.longitude
    IN  [ sentence |-> "GPGGA",
          time |-> <<gmt.tm_hour, gmt.tm_min, gmt.tm_sec>>,
          lat_deg |-> Abs(lat.num) \div lat.den,
          lat_mins |-> [num |-> (Abs(lat.num) % lat.den) * 60, den |-> lat.den],
          lat_dir |-> IF lat.num > 0 THEN "N" ELSE "S",
          lon_deg |-> Abs(lon.num) \div lon.den,
          lon_mins |-> [num |-> (Abs(lon.num) % lon.den) * 60, den |-> lon.den],
          lon_dir |-> IF lon.num > 0 THEN "E" ELSE "W",
          fix_quality |-> IF msg.goodFix THEN "1" ELSE "0",
          nr_sats |-> msg.nrSats,
          elev |-> msg.elevMetres,
          to_geoid |-> msg.geoidOffs ]

\* __format_zda: the fields of the GPZDA sentence
format_zda(msg) ==
    LET gmt == gmtime(msg.time)
    IN  [ sentence |-> "GPZDA",
          time |-> <<gmt.tm_hour, gmt.tm_min, gmt.tm_sec>>,
          date |-> gmt.tm_day ]

\* __format_nmea_msg: the sentence between "$" and the checksum, and the
\* line feed that ends it
format_nmea_msg(msg_body) == [nmea |-> msg_body, end |-> LF]

\* json.dumps(msg) + '\n': one line holding the keys and values of msg
json_line(msg) == [json |-> msg, end |-> LF]

\* NtpdShm.update(t)
shm_update(t) == [update |-> t]

\* a test that does not look at the time
ZdaDue_always(t, lz, lg) == lg.some

\* line 70: the periodic ZDA sentence is due
ZdaDue(t, lz, lg) == lg.some /\ (t - lz) >= zda_interval_sec

\* a pass that looks at the interval only when the message is a Gps event
nmea_pass_gps_only(msg, t, lz, lg) ==
    (IF ZdaDue(t, lz, lg) /\ msg.type = "gps"
     THEN <<format_nmea_msg(format_zda(lg.v))>> ELSE <<>>)
    \o (IF msg.type = "gps" THEN <<format_nmea_msg(format_gps(msg))>> ELSE <<>>)

\* nmea_writer._writer, lines 70-81: what the pass on msg writes at time t,
\* _last_zda being lz and _last_gps_msg being lg
nmea_pass(msg, t, lz, lg) ==
    (IF ZdaDue(t, lz, lg)
     THEN <<format_nmea_msg(format_zda(lg.v))>> ELSE <<>>)
    \o (IF msg.type = "gps" THEN <<format_nmea_msg(format_gps(msg))>> ELSE <<>>)

\* a _writer that writes a line for every event
sat_pass_all(msg) == <<json_line(msg)>>

\* sat_writer._writer, lines 21-24
sat_pass(msg) == IF msg.type = "sat" THEN <<json_line(msg)>> ELSE <<>>

\* a _writer that gives the SHM the time of every event
shm_pass_all(msg) ==
    <<shm_update(IF "time" \in DOMAIN msg THEN msg.time ELSE msg.lastSeen)>>

\* shm_writer._writer, lines 26-30
shm_pass(msg) == IF msg.type = "gps" THEN <<shm_update(msg.time)>> ELSE <<>>

\* what the pass of output o on msg writes
Pass(o, msg, t, lz, lg) ==
    IF o = "nmea" THEN nmea_pass(msg, t, lz, lg)
    ELSE IF o = "sat" THEN sat_pass(msg)
    ELSE shm_pass(msg)

\* now = time.time() of line 69: only the NMEA writer reads the clock
ClockRead(o, t) == IF o = "nmea" THEN Some(t) ELSE NoInt

\* the outputs that write to a file, whose write may raise
CanRaise(o) == o \in {"nmea", "sat"}

\* file.flush(): all that was written is flushed
flush(file, done) == Len(file)

-----------------------------------------------------------------------------
(* The tasks of the event loop. *)

\* await asyncio.sleep(1.0) of the sender
SendSleepSec == 1
\* await asyncio.sleep(30) of _request_location_update
PosUpdateSec == 30

\* a sleep that is over at once
sleep_zero(t, delay) == t

\* asyncio.sleep(delay) called at time t: the time at which it is over
sleep(t, delay) == t + delay

\* the clock when the agent is started: an interval past the epoch
\* (time.time() counts from 1970)
StartTime == zda_interval_sec

InitAgent ==
    /\ cur = <<>>
    /\ messages = <<>>
    /\ tpstate_set = FALSE
    /\ ready = <<>>
    /\ msg_queue = <<>>
    /\ tp = InitState
    /\ handler = "new"
    /\ out_queue = [o \in OutputSet |-> <<>>]
    /\ writer = [o \in OutputSet |-> "new"]
    /\ cmd_queue = <<>>
    /\ wire = <<>>
    /\ nlines = 0
    /\ stream = <<>>
    /\ applied = <<>>
    /\ consumed = [o \in OutputSet |-> <<>>]
    /\ now = StartTime
    /\ sender = "new"
    /\ sender_wake = 0
    /\ written = <<>>
    /\ cmd_log = <<>>
    /\ timer_wake = 0
    /\ ticks = <<>>
    /\ last_zda = gmtime(0)
    /\ last_gps_msg = NoMsg
    /\ out_file = [o \in OutputSet |-> <<>>]
    /\ flushed = [o \in OutputSet |-> 0]
    /\ emitted = [o \in OutputSet |-> <<>>]
    /\ responses = <<>>
    /\ loop = "running"
    /\ transport = "open"

\* nothing has been formatted
Init ==
    /\ InitAgent
    /\ nmea_body = <<>>
    /\ sentence = <<>>

\* The start of the agent: output.start() of every output, proto.start(st)
\* and st.start(), made in a row before the loop runs again.  The tasks
\* they make run up to their first await when the loop runs next: the NMEA
\* writer sets _last_zda to 0, the position timer begins its first sleep.
Start ==
    /\ ~tpstate_set
    /\ tpstate_set' = TRUE
    /\ handler' = "running"
    /\ writer' = [o \in OutputSet |-> "running"]
    /\ sender' = "waiting"
    /\ timer_wake' = sleep(now, PosUpdateSec)
    /\ last_zda' = 0
    /\ UNCHANGED <<cur, messages, ready, msg_queue, tp, out_queue, cmd_queue,
                   wire, nlines, stream, applied, consumed, now, cmd_log,
                   sender_wake, written, ticks, last_gps_msg, out_file, flushed,
                   emitted,
                   responses, loopVars, formatVars>>

\* The serial port has read some of what the device sends, a whole line of
\* the catalogue lines or (when partial) the next ChunkLen characters of it,
\* and hands it to data_received.  The device sends max lines at most.
ReceiveFrom(lines, max, partial) ==
    \E l \in 1..Len(lines), whole \in BOOLEAN :
        LET fresh == (wire = <<>>)
            pending == IF fresh THEN lines[l] ELSE wire
            n == IF whole \/ Len(pending) <= ChunkLen THEN Len(pending) ELSE ChunkLen
        IN  /\ IF fresh THEN nlines < max ELSE l = 1
            /\ (Len(pending) <= ChunkLen => whole)
            /\ (~partial => whole)
            /\ data_received(SubSeq(pending, 1, n))
            /\ wire' = SubSeq(pending, n + 1, Len(pending))
            /\ nlines' = IF fresh THEN nlines + 1 ELSE nlines
            /\ UNCHANGED <<tpstate_set, msg_queue, tp, handler, out_queue, writer,
                           cmd_queue, applied, consumed, now, cmd_log, senderVars,
                           timerVars, sinkVars,
                   responses, loopVars, formatVars>>

Receive == ReceiveFrom(Lines, MaxLines, TRUE)

\* The same with an arbitrary chunk of an arbitrary stream.
ReceiveRaw ==
    \E data \in RawChunks :
        /\ Len(stream) + Len(data) <= MaxStream
        /\ data_received(data)
        /\ UNCHANGED <<tpstate_set, msg_queue, tp, handler, out_queue, writer,
                       cmd_queue, wire, nlines, applied, consumed, now, cmd_log,
                       senderVars, timerVars, sinkVars,
                   responses, loopVars, formatVars>>

\* The loop runs the oldest task made by ensure_future: enqueue_message(msg).
RunEnqueueTask ==
    /\ ready # <<>>
    /\ CanPut(msg_queue, <<Head(ready)>>)
    /\ msg_queue' = put(msg_queue, <<Head(ready)>>)
    /\ ready' = Tail(ready)
    /\ UNCHANGED <<cur, messages, tpstate_set, tp, handler, out_queue, writer,
                   cmd_queue, wire, nlines, stream, applied, consumed, now,
                   cmd_log, senderVars, timerVars, sinkVars,
                   responses, loopVars, formatVars>>

\* a get that takes the newest item
get_newest(q) == q[Len(q)]

\* Queue.get
get(q) == Head(q)

\* every put of the pass of the loop on the oldest message completes: the
\* handler is not left waiting on a full queue of an output or of the sender
PutsComplete ==
    \E r \in {Dispatch(tp, get(msg_queue))} :
        /\ \A o \in OutputSet : CanPut(out_queue[o], r.evs)
        /\ CanPut(cmd_queue, r.cmds)

\* _handle_messages: one pass of the loop, from the get to the next get.
\* Nothing in it waits (no queue has a maxsize), so no other task runs
\* within it.
HandleMessage ==
    /\ handler = "running"
    /\ msg_queue # <<>>
    /\ PutsComplete
    /\ \E msg \in {get(msg_queue)} : \E r \in {Dispatch(tp, msg)} :
           /\ msg_queue' = Tail(msg_queue)
           /\ tp' = r.st
           /\ out_queue' = FanOut(out_queue, r.evs)
           /\ cmd_queue' = put(cmd_queue, r.cmds)
           /\ cmd_log' = cmd_log \o r.cmds
           /\ handler' = IF r.exc THEN "dead" ELSE "running"
           /\ applied' = Append(applied, [msg |-> msg, exc |-> r.exc, evs |-> r.evs,
                                          cmds |-> r.cmds, active |-> r.st.is_active,
                                          version |-> r.st.firmware_version,
                                          serial |-> r.st.firmware_serial,
                                          sats |-> r.st.sats,
                                          logs |-> IF Kind(msg) = "status"
                                                   THEN _status_info(tp, msg)
                                                   ELSE <<>>])
    /\ UNCHANGED <<cur, messages, tpstate_set, ready, writer, wire, nlines, stream,
                   consumed, now, senderVars, timerVars, sinkVars,
                   responses, loopVars, formatVars>>

\* _writer of an output: one pass of its loop, from the get to the next get.
\* The pass reads the clock once.  A write to the file may raise (the reader
\* of the FIFO is gone, the disk is full), which ends the task with the
\* writes made before it done: n of the writes of the pass are made.
WriterStep(o) ==
    /\ writer[o] = "running"
    /\ out_queue[o] # <<>>
    /\ \E msg \in {get(out_queue[o])} :
       \E w \in {Pass(o, msg, now, last_zda, last_gps_msg)} :
       \E n \in 0..Len(w) :
           /\ (n < Len(w)) => CanRaise(o)
           /\ writer' = [writer EXCEPT ![o] = IF n < Len(w) THEN "dead" ELSE "running"]
           /\ out_file' = [out_file EXCEPT ![o] = @ \o SubSeq(w, 1, n)]
           /\ flushed' = [flushed EXCEPT ![o] = flush(out_file'[o], @)]
           /\ emitted' = [emitted EXCEPT ![o] =
                             Append(@, [at |-> ClockRead(o, now),
                                        out |-> SubSeq(w, 1, n)])]
           /\ last_zda' = IF o = "nmea" /\ ZdaDue(now, last_zda, last_gps_msg)
                          THEN now ELSE last_zda
           /\ last_gps_msg' = IF o = "nmea" /\ msg.type = "gps"
                              THEN Some(msg) ELSE last_gps_msg
           /\ consumed' = [consumed EXCEPT ![o] = Append(@, msg)]
    /\ out_queue' = [out_queue EXCEPT ![o] = Tail(@)]
    /\ UNCHANGED <<cur, messages, tpstate_set, ready, msg_queue, tp, handler,
                   cmd_queue, wire, nlines, stream, applied, now, cmd_log,
                   senderVars, timerVars,
                   responses, loopVars, formatVars>>

\* _send_queued_messages, lines 26-29: the sender takes the oldest command,
\* writes it with CR LF to the serial port and begins its sleep.
SenderWrite ==
    /\ sender = "waiting"
    /\ cmd_queue # <<>>
    /\ cmd_queue' = Tail(cmd_queue)
    /\ written' = Append(written, [data |-> get(cmd_queue) \o <<CR, LF>>, at |-> now])
    /\ sender' = "sleeping"
    /\ sender_wake' = sleep(now, SendSleepSec)
    /\ UNCHANGED <<cur, messages, tpstate_set, ready, msg_queue, tp, handler,
                   out_queue, writer, wire, nlines, stream, applied, consumed, now,
                   cmd_log, timerVars, sinkVars,
                   responses, loopVars, formatVars>>

\* a sender that ends after its sleep
SenderWake_ends ==
    /\ sender = "sleeping"
    /\ now >= sender_wake
    /\ sender' = "done"
    /\ UNCHANGED <<cur, messages, tpstate_set, ready, msg_queue, tp, handler,
                   out_queue, writer, cmd_queue, wire, nlines, stream, applied,
                   consumed, now, cmd_log, sender_wake, written, timerVars, sinkVars,
                   responses, loopVars, formatVars>>

\* the sleep of the sender is over: it goes back to the get
SenderWake ==
    /\ sender = "sleeping"
    /\ now >= sender_wake
    /\ sender' = "waiting"
    /\ UNCHANGED <<cur, messages, tpstate_set, ready, msg_queue, tp, handler,
                   out_queue, writer, cmd_queue, wire, nlines, stream, applied,
                   consumed, now, cmd_log, sender_wake, written, timerVars, sinkVars,
                   responses, loopVars, formatVars>>

\* a timer that asks for the position whatever _is_active
PositionRequest_always(st) == <<T_GETPOS>>

\* _request_location_update, lines 218-220: what the timer enqueues
PositionRequest(st) == IF st.is_active THEN <<T_GETPOS>> ELSE <<>>

\* _request_location_update: the sleep of 30 seconds is over, the timer
\* enqueues what it has to and begins the next sleep.
TimerFire ==
    /\ tpstate_set
    /\ now >= timer_wake
    /\ Len(ticks) < MaxTimerTicks
    /\ \E cmds \in {PositionRequest(tp)} :
           /\ CanPut(cmd_queue, cmds)
           /\ cmd_queue' = put(cmd_queue, cmds)
           /\ cmd_log' = cmd_log \o cmds
           /\ ticks' = Append(ticks, [at |-> now, seen |-> Len(applied),
                                      cmds |-> cmds])
    /\ timer_wake' = sleep(now, PosUpdateSec)
    /\ UNCHANGED <<cur, messages, tpstate_set, ready, msg_queue, tp, handler,
                   out_queue, writer, wire, nlines, stream, applied, consumed, now,
                   senderVars, sinkVars,
                   responses, loopVars, formatVars>>

\* TruePositionHTTPApi.get: a request is answered with get_state() as JSON.
\* The handler does not await, so the document is that of one state.
HttpGet ==
    /\ Len(responses) < MaxReads
    /\ responses' = Append(responses, [seen |-> Len(applied), doc |-> get_state(tp)])
    /\ UNCHANGED <<cur, messages, tpstate_set, ready, msg_queue, tp, handler,
                   out_queue, writer, cmd_queue, wire, nlines, stream, applied,
                   consumed, now, cmd_log, senderVars, timerVars, sinkVars,
                   loopVars, formatVars>>

\* d seconds go by, the clock not going past limit
Elapse(d, limit) ==
    /\ now + d <= limit
    /\ now' = now + d
    /\ UNCHANGED <<cur, messages, tpstate_set, ready, msg_queue, tp, handler,
                   out_queue, writer, cmd_queue, wire, nlines, stream, applied,
                   consumed, cmd_log, senderVars, timerVars, sinkVars,
                   responses, loopVars, formatVars>>

Next ==
    \/ Start
    \/ Receive
    \/ RunEnqueueTask
    \/ HandleMessage
    \/ \E o \in OutputSet : WriterStep(o)

Spec == Init /\ [][Next]_vars

NextFraming ==
    \/ Start
    \/ ReceiveRaw
    \/ RunEnqueueTask

SpecFraming == Init /\ [][NextFraming]_vars

\* The sender and the position timer.  The device sends whole lines that
\* make commands: a bootloader banner, a short $CLOCK and $WSAT.
SenderLines == <<Lines[1], Lines[7], Lines[10]>>

ReceiveCommandLine == ReceiveFrom(SenderLines, MaxSenderLines, FALSE)

\* a second goes by, the first of a period of the timer
ElapseSecond ==
    /\ (now - StartTime) % PosUpdateSec < SendSleepSec
    /\ Elapse(SendSleepSec, now + SendSleepSec)

\* a period of the timer goes by
ElapsePeriod == Elapse(PosUpdateSec, StartTime + MaxTimerTicks * PosUpdateSec + SendSleepSec)

NextSender ==
    \/ Start
    \/ ReceiveCommandLine
    \/ RunEnqueueTask
    \/ HandleMessage
    \/ ElapseSecond
    \/ ElapsePeriod
    \/ TimerFire
    \/ SenderWrite
    \/ SenderWake

SpecSender == Init /\ [][NextSender]_vars

\* The sender under fair scheduling.  The device sends $WSAT lines: the
\* agent has no identity of the firmware, so each of them makes the handler
\* put $GETVER.  The loop waits until its next timer is due: the clock goes
\* to the end of the sleep of the sender, or to the end of the sleep of the
\* position timer.
LiveLines == <<Lines[10]>>

ReceiveLiveLine == ReceiveFrom(LiveLines, MaxSenderLines, FALSE)

ElapseToSenderWake ==
    /\ sender = "sleeping"
    /\ now < sender_wake
    /\ Elapse(sender_wake - now, sender_wake)

ElapseToTimerWake ==
    /\ tpstate_set
    /\ Len(ticks) < MaxTimerTicks
    /\ now < timer_wake
    /\ Elapse(timer_wake - now, timer_wake)

NextSenderLive ==
    \/ Start
    \/ ReceiveLiveLine
    \/ RunEnqueueTask
    \/ HandleMessage
    \/ TimerFire
    \/ SenderWrite
    \/ SenderWake
    \/ ElapseToSenderWake
    \/ ElapseToTimerWake

\* The sender task is run when it can run, and time goes by.
SpecSenderLive ==
    /\ Init
    /\ [][NextSenderLive]_vars
    /\ WF_vars(SenderWrite)
    /\ WF_vars(SenderWake)
    /\ WF_vars(ElapseToSenderWake)

\* The outputs.  The device sends whole lines that make events: two $CLOCK
\* of different times, and $SAT of two channels.
SinkLines ==
    << Lines[5], Lines[6], Lines[8],
       Join(<<T_SAT, <<"1">>, <<"6">>, <<"3">>, <<"2">>, <<"4">> >>) \o <<CR>> >>

ReceiveEventLine == ReceiveFrom(SinkLines, MaxSinkLines, FALSE)

\* half a ZDA interval goes by
ElapseHalfInterval ==
    Elapse(zda_interval_sec \div 2, StartTime + MaxZdaIntervals * zda_interval_sec)

\* The status document.  The device sends whole $SURVEY and $EXTSTATUS
\* lines, with the survey flag on and off, some of them short.
StatusLines ==
    << Lines[11],
       Join(<<T_SURVEY, <<"1">>, <<"2">>, <<"3">>, <<"4">> >>) \o <<CR>>,
       Lines[12],
       Join(<<T_EXTSTATUS, <<"0">>, <<"2">>, <<"3">>, <<"4">> >>) \o <<CR>>,
       Join(<<T_EXTSTATUS, <<"1">>, <<"2">>, <<"3">> >>) \o <<CR>> >>

ReceiveStatusLine == ReceiveFrom(StatusLines, MaxStatusLines, FALSE)

NextStatus ==
    \/ Start
    \/ ReceiveStatusLine
    \/ RunEnqueueTask
    \/ HandleMessage
    \/ HttpGet

SpecStatus == Init /\ [][NextStatus]_vars

\* The reads of the state among the other tasks: the handler, the position
\* timer, the sender and a writer.  The device sends whole lines that have
\* all their fields: $CLOCK, $WSAT, $GETPOS and $STATUS.
ReadLines == <<Lines[5], Lines[10], Lines[13], Lines[14]>>

ReceiveReadLine == ReceiveFrom(ReadLines, MaxReadLines, FALSE)

\* the first period of the timer goes by
ElapseFirstPeriod == Elapse(PosUpdateSec, StartTime + PosUpdateSec)

NextReads ==
    \/ Start
    \/ ReceiveReadLine
    \/ RunEnqueueTask
    \/ HandleMessage
    \/ HttpGet
    \/ ElapseFirstPeriod
    \/ TimerFire
    \/ SenderWrite
    \/ SenderWake
    \/ WriterStep("sat")

SpecReads == Init /\ [][NextReads]_vars

\* The diagnostics of $STATUS and the messages of no known tag.  The device
\* sends three $STATUS lines (the second differs from the first in a flag and
\* in the state, the third in the holdover seconds only), a line of an
\* unknown tag and a line without the '$'.
DiagLines ==
    << Lines[14],
       Join(<<T_STATUS, <<"1">>, <<"1">>, <<"0">>, <<"0">>, <<"3">>, <<"1">> >>) \o <<CR>>,
       Join(<<T_STATUS, <<"0">>, <<"1">>, <<"0">>, <<"5">>, <<"3">>, <<"0">> >>) \o <<CR>>,
       Lines[15],
       <<"F", "O", "O", CR>> >>

ReceiveDiagLine == ReceiveFrom(DiagLines, MaxDiagLines, FALSE)

NextDiag ==
    \/ Start
    \/ ReceiveDiagLine
    \/ RunEnqueueTask
    \/ HandleMessage

SpecDiag == Init /\ [][NextDiag]_vars

\* The loss of the serial connection.  The device sends a $CLOCK, which
\* makes an event for the outputs, and a $WSAT, which makes the agent send
\* $GETVER.
LossLines == <<Lines[5], Lines[10]>>

ReceiveLossLine == ReceiveFrom(LossLines, MaxLossLines, FALSE)

\* a connection_lost that logs and leaves the loop running
stop_ignored(l) == l

\* loop.stop(): run_forever returns, and main closes the loop and returns
stop(l) == "stopped"

\* connection_lost, called by the transport once, when the port is gone
ConnectionLost ==
    /\ loop = "running"
    /\ handler # "new"
    /\ transport = "open"
    /\ transport' = "lost"
    /\ loop' = stop(loop)
    /\ UNCHANGED <<cur, messages, tpstate_set, ready, msg_queue, tp, handler,
                   out_queue, writer, cmd_queue, wire, nlines, stream, applied,
                   consumed, now, cmd_log, senderVars, timerVars, sinkVars,
                   responses, formatVars>>

\* run_forever: the callbacks and the tasks run while the loop is not
\* stopped; data arrives while the transport is open
NextLoss ==
    \/ loop = "running" /\ Start
    \/ loop = "running" /\ transport = "open" /\ ReceiveLossLine
    \/ loop = "running" /\ RunEnqueueTask
    \/ loop = "running" /\ HandleMessage
    \/ loop = "running" /\ ElapseSecond
    \/ loop = "running" /\ SenderWrite
    \/ loop = "running" /\ SenderWake
    \/ loop = "running" /\ WriterStep("shm")
    \/ ConnectionLost

SpecLoss == Init /\ [][NextLoss]_vars

\* __format_nmea_msg at the level of characters.  The bodies are made of a
\* few characters of the sentences the agent writes.
BodyChars == {"G", "P", "A", ",", "0", "1"}

\* ord(c)
ord(c) ==
    CASE c = "G" -> 71
      [] c = "P" -> 80
      [] c = "A" -> 65
      [] c = "," -> 44
      [] c = "0" -> 48
      [] c = "1" -> 49

\* a ^ b on integers that are not negative
RECURSIVE xor(_, _)
xor(a, b) ==
    IF a = 0 THEN b
    ELSE IF b = 0 THEN a
    ELSE 2 * xor(a \div 2, b \div 2) + (IF a % 2 = b % 2 THEN 0 ELSE 1)

\* __nmea_chksum: checksum ^= ord(c) for every c of the body, from 0
RECURSIVE __nmea_chksum(_)
__nmea_chksum(msg) ==
    IF msg = <<>> THEN 0
    ELSE xor(__nmea_chksum(SubSeq(msg, 1, Len(msg) - 1)), ord(msg[Len(msg)]))

HexDigits == <<"0", "1", "2", "3", "4", "5", "6", "7", "8", "9",
               "a", "b", "c", "d", "e", "f">>

\* format(n, 'x'): lower-case hexadecimal without leading zeros
RECURSIVE hex(_)
hex(n) ==
    IF n < 16 THEN <<HexDigits[n + 1]>>
    ELSE hex(n \div 16) \o <<HexDigits[(n % 16) + 1]>>

\* '{:2x}'.format(n): the hexadecimal digits, padded on the left with
\* spaces to the width 2
format_2x(n) ==
    LET h == hex(n)
    IN  IF Len(h) < 2 THEN <<SP>> \o h ELSE h

\* '${}*{:2x}\n'.format(msg_body, __nmea_chksum(msg_body))
__format_nmea_msg(body) ==
    <<"$">> \o body \o <<"*">> \o format_2x(__nmea_chksum(body)) \o <<LF>>

Bodies == UNION {[1..n -> BodyChars] : n \in 1..MaxBody}

InitFormat ==
    /\ InitAgent
    /\ nmea_body \in Bodies
    /\ sentence = <<>>

FormatNmeaMsg ==
    /\ sentence = <<>>
    /\ sentence' = __format_nmea_msg(nmea_body)
    /\ UNCHANGED <<cur, messages, tpstate_set, ready, msg_queue, tp, handler,
                   out_queue, writer, cmd_queue, wire, nlines, stream, applied,
                   consumed, now, cmd_log, senderVars, timerVars, sinkVars,
                   responses, loopVars, nmea_body>>

NextFormat == FormatNmeaMsg

SpecFormat == InitFormat /\ [][NextFormat]_vars

\* The NMEA writer and the clock.  The writers are tasks of their own that
\* share nothing, so the other two are left out: their queues only fill.
NmeaWriterStep == WriterStep("nmea")

NextNmea ==
    \/ Start
    \/ ReceiveEventLine
    \/ RunEnqueueTask
    \/ HandleMessage
    \/ ElapseHalfInterval
    \/ NmeaWriterStep

SpecNmea == Init /\ [][NextNmea]_vars

\* The ephemeris writer and the time-sync writer, which do not read the clock.
SatWriterStep == WriterStep("sat")
ShmWriterStep == WriterStep("shm")

NextFiles ==
    \/ Start
    \/ ReceiveEventLine
    \/ RunEnqueueTask
    \/ HandleMessage
    \/ SatWriterStep
    \/ ShmWriterStep

SpecFiles == Init /\ [][NextFiles]_vars

-----------------------------------------------------------------------------
(* What the stream says, read off the stream as a whole. *)

HasCR(s) == \E i \in 1..Len(s) : s[i] = CR

FirstCR(s) == CHOOSE i \in 1..Len(s) : s[i] = CR /\ \A j \in 1..(i - 1) : s[j] # CR

\* the CR-terminated segments of a stream, in order
RECURSIVE Terminated(_)
Terminated(s) ==
    IF ~HasCR(s) THEN <<>>
    ELSE <<SubSeq(s, 1, FirstCR(s) - 1)>> \o Terminated(SubSeq(s, FirstCR(s) + 1, Len(s)))

\* the text after the last CR
RECURSIVE Unterminated(_)
Unterminated(s) ==
    IF ~HasCR(s) THEN s ELSE Unterminated(SubSeq(s, FirstCR(s) + 1, Len(s)))

NoLF(s) == SelectSeq(s, LAMBDA c : c # LF)

\* the messages of a stream: its CR-terminated segments without their LFs,
\* trimmed, the empty ones dropped
Frame(s) ==
    LET segs == Terminated(s)
        trimmed == [i \in 1..Len(segs) |-> strip(NoLF(segs[i]))]
    IN  SelectSeq(trimmed, LAMBDA m : m # <<>>)

AppliedMsgs == [i \in 1..Len(applied) |-> applied[i].msg]

\* the messages handed to the state tracker so far, in the order of the
\* ensure_future calls
SentOn == AppliedMsgs \o msg_queue \o ready

IsPrefix(a, b) == Len(a) <= Len(b) /\ SubSeq(b, 1, Len(a)) = a

-----------------------------------------------------------------------------
(* The claims. *)

\* C1: the messages are applied to the device state one at a time in the
\* order their CR terminators arrived on the wire: the k-th message applied
\* is the k-th message of the stream, so none is applied twice, skipped or
\* reordered.
C1_AppliedInArrivalOrder == IsPrefix(AppliedMsgs, Frame(stream))

\* two different messages were applied, in the order of the stream
C1_Witness ==
    /\ Len(applied) = 2
    /\ applied[1].msg # applied[2].msg
    /\ applied[1].exc = FALSE
    /\ Len(Frame(stream)) = 2

\* C2: whatever the chunks, the messages forwarded, followed by what the
\* list still holds for the next call, are the CR-terminated segments of the
\* stream with every LF removed, trimmed, the empty ones dropped, each once
\* and in order; the text after the last CR (without its LFs) stays in the
\* buffer.  The list holds messages back only while no state tracker is set,
\* before anything was forwarded.
C2_Framing ==
    /\ SentOn \o Forwarded(messages) = Frame(stream)
    /\ cur = NoLF(Unterminated(stream))
    /\ messages # <<>> => SentOn = <<>>
    /\ (tpstate_set /\ SentOn # <<>>) => SentOn = Frame(stream)

\* two messages were forwarded from a stream with an LF, and text is buffered
C2_Witness ==
    /\ Len(SentOn) = 2
    /\ \E i \in 1..Len(stream) : stream[i] = LF
    /\ cur # <<>>
    /\ tpstate_set

\* the message has the fields the protocol gives its kind
AreInts(msg, n) == \A i \in 1..n : IntAt(split(msg), i).ok

IsBoot(msg) == Kind(msg) = "getver" /\ contains(msg, BOOT)

WellFormed(msg) ==
    LET k == Kind(msg)
    IN  IF k = "getver" THEN (IF contains(msg, BOOT) THEN TRUE ELSE Len(split(msg)) >= 7)
        ELSE IF k = "clock" THEN AreInts(msg, 3)
        ELSE IF k = "sat" THEN AreInts(msg, 5)
        ELSE IF k = "survey" THEN AreInts(msg, 5)
        ELSE IF k = "extstatus" THEN AreInts(msg, 4)
        ELSE IF k = "getpos" THEN AreInts(msg, 5)
        ELSE IF k = "status" THEN AreInts(msg, 6)
        ELSE TRUE

RECURSIVE EventsUpTo(_)
EventsUpTo(n) == IF n = 0 THEN <<>> ELSE EventsUpTo(n - 1) \o applied[n].evs

\* every event the message handler has made, in order
AllEvents == EventsUpTo(Len(applied))

\* what an output was handed: what its writer took, then what it still holds
Handed(o) == consumed[o] \o out_queue[o]

Count(seq, x) == Cardinality({k \in 1..Len(seq) : seq[k] = x})

ActiveBefore(i) == IF i = 1 THEN FALSE ELSE applied[i - 1].active
VersionBefore(i) == IF i = 1 THEN NoStr ELSE applied[i - 1].version
SerialBefore(i) == IF i = 1 THEN NoStr ELSE applied[i - 1].serial

\* C3: every processed $CLOCK puts exactly one Gps event, and every processed
\* $SAT exactly one Sat event for its channel, on every output; a message of
\* any other tag puts none.  (Stated for the messages that have all their
\* fields.)
C3_OneEventPerClockAndSat ==
    /\ \A i \in 1..Len(applied) :
        LET e == applied[i]
        IN  WellFormed(e.msg) =>
              IF Kind(e.msg) = "clock"
              THEN Len(e.evs) = 1 /\ e.evs[1].type = "gps"
              ELSE IF Kind(e.msg) = "sat"
              THEN /\ Len(e.evs) = 1
                   /\ e.evs[1].type = "sat"
                   /\ e.evs[1].slotId = IntAt(split(e.msg), 1).v
              ELSE e.evs = <<>>
    /\ \A o \in OutputSet : Handed(o) = AllEvents

\* the messages whose pass of the loop made an event
EventMsgs == SelectSeq(applied, LAMBDA e : e.evs # <<>>)

\* C4: every output has been handed the same events in the same order, the
\* order of the $CLOCK and $SAT messages that made them, and each writer
\* takes the events of its queue oldest first.
C4_FanOutEquality ==
    /\ \A o \in OutputSet : Handed(o) = AllEvents
    /\ Len(AllEvents) = Len(EventMsgs)
    /\ \A k \in 1..Len(AllEvents) :
        AllEvents[k].type = IF Kind(EventMsgs[k].msg) = "clock" THEN "gps" ELSE "sat"

\* a Gps and a Sat event were handed out; one writer took both, the other none
C4_Witness ==
    /\ Len(AllEvents) = 2
    /\ AllEvents[1].type # AllEvents[2].type
    /\ Len(consumed["sat"]) = 2
    /\ Len(out_queue["nmea"]) = 2

\* C5: whatever the outputs do - slow, not drained, writer task failed - the
\* message handler can take the next message (every put of its pass
\* completes, which is all that HandleMessage waits for), and a running
\* writer can take the next event of its own queue.
C5_SinkIndependence ==
    /\ (handler = "running" /\ msg_queue # <<>>) => PutsComplete
    /\ \A o \in OutputSet :
        (writer[o] = "running" /\ out_queue[o] # <<>>) => ENABLED WriterStep(o)

\* the NMEA writer has failed and holds an event it will never take, and the
\* handler and the other writer went on
C5_Witness ==
    /\ writer["nmea"] = "dead"
    /\ out_queue["nmea"] # <<>>
    /\ Len(applied) = 2
    /\ Len(consumed["sat"]) = 2

\* C6: a $GETVER with BOOT leaves the device inactive and enqueues exactly
\* one $PROCEED; no other message enqueues a $PROCEED, so there are as many
\* $PROCEED as BOOT messages; the bootloader flag is clear between messages.
C6_OneProceedPerBoot ==
    /\ tp.in_bootloader = FALSE
    /\ \A i \in 1..Len(applied) :
        LET e == applied[i]
        IN  IF IsBoot(e.msg)
            THEN e.exc = FALSE /\ e.active = FALSE /\ e.cmds = <<T_PROCEED>>
            ELSE Count(e.cmds, T_PROCEED) = 0

\* a BOOT message, then another message that made the device active again
C6_Witness ==
    /\ Len(applied) = 2
    /\ IsBoot(applied[1].msg)
    /\ applied[2].active

\* C7: after every processed message exactly one $GETVER is enqueued if the
\* device is then active with the version or the serial unset, and none
\* otherwise.  (Stated for the messages that have all their fields.)
C7_PollWhileIdentityUnset ==
    \A i \in 1..Len(applied) :
        LET e == applied[i]
        IN  WellFormed(e.msg) =>
              Count(e.cmds, T_GETVER) =
                 IF e.active /\ (Falsy(e.version) \/ Falsy(e.serial)) THEN 1 ELSE 0

IdentitySet(i) == ~Falsy(applied[i].version) /\ ~Falsy(applied[i].serial)

\* C8 as claimed: once version and serial are set, no later message changes
\* them unless a BOOT message came in between.
C8_WriteOnce ==
    \A i \in 1..Len(applied) : \A j \in (i + 1)..Len(applied) :
        (IdentitySet(i) /\ \A k \in (i + 1)..j : ~IsBoot(applied[k].msg)) =>
            /\ applied[j].version = applied[i].version
            /\ applied[j].serial = applied[i].serial

\* C8 as amended: only a $GETVER without BOOT changes the firmware identity,
\* and every one does: it overwrites the version with its field 1 and, if it
\* has 7 fields, the serial with its field 6, set already or not.
C8_GetverOverwrites ==
    \A i \in 1..Len(applied) :
        LET e == applied[i]
            fields == split(e.msg)
        IN  IF Kind(e.msg) = "getver" /\ ~IsBoot(e.msg)
            THEN /\ e.version = IF Len(fields) >= 2 THEN Some(fields[2]) ELSE VersionBefore(i)
                 /\ e.serial = IF Len(fields) >= 7 THEN Some(fields[7]) ELSE SerialBefore(i)
            ELSE e.version = VersionBefore(i) /\ e.serial = SerialBefore(i)

\* a second $GETVER replaced an identity that was set, with no BOOT between
C8_Witness ==
    /\ Len(applied) = 2
    /\ IdentitySet(1)
    /\ IdentitySet(2)
    /\ applied[2].version # applied[1].version
    /\ applied[2].serial # applied[1].serial

\* C9: the device is inactive at first and after a BOOT message, and goes
\* from inactive to active only by a message of a known tag that was parsed:
\* never by one whose fields fail to parse, nor by one of an unknown tag.
C9_ActiveOnlyWhenParsed ==
    /\ applied = <<>> => tp.is_active = FALSE
    /\ \A i \in 1..Len(applied) :
        LET e == applied[i]
        IN  /\ IsBoot(e.msg) => e.active = FALSE
            /\ (ActiveBefore(i) = FALSE /\ e.active) =>
                  (Kind(e.msg) # "default" /\ ~IsBoot(e.msg) /\ e.exc = FALSE)

ClockIdx == {i \in 1..Len(applied) : Kind(applied[i].msg) = "clock"}

\* 315964800 + L + W of the $CLOCK message applied[i]
ClockEpoch(i) ==
    315964800 + IntAt(split(applied[i].msg), 2).v + IntAt(split(applied[i].msg), 1).v

HasWL(i) == IntAt(split(applied[i].msg), 1).ok /\ IntAt(split(applied[i].msg), 2).ok

LastClockBefore(j) == CHOOSE i \in ClockIdx : i < j /\ \A k \in ClockIdx : k < j => k <= i

\* C10: once a $CLOCK was processed, epoch_time is 315964800 + L + W of the
\* latest $CLOCK (one that has these two fields); so is the time of the Gps
\* event made for it, and the lastSeen of every $SAT processed before the
\* next $CLOCK.
C10_EpochTime ==
    /\ ClockIdx # {} =>
         LET i == LastClockBefore(Len(applied) + 1)
         IN  HasWL(i) => epoch_time(tp) = [ok |-> TRUE, v |-> ClockEpoch(i)]
    /\ \A i \in ClockIdx : applied[i].evs # <<>> => applied[i].evs[1].time = ClockEpoch(i)
    /\ \A j \in 1..Len(applied) :
         (Kind(applied[j].msg) = "sat" /\ applied[j].evs # <<>>) =>
            /\ \E i \in ClockIdx : i < j
            /\ applied[j].evs[1].lastSeen = ClockEpoch(LastClockBefore(j))
            /\ (\A k \in (j + 1)..Len(applied) : Kind(applied[k].msg) # "sat") =>
                  tp.sats[applied[j].evs[1].slotId].lastSeen = ClockEpoch(LastClockBefore(j))

\* two $CLOCK messages with different times, each with its Gps event
C10_Witness ==
    /\ Len(applied) = 2
    /\ ClockIdx = {1, 2}
    /\ applied[1].evs # <<>>
    /\ applied[2].evs # <<>>
    /\ applied[1].evs[1].time # applied[2].evs[1].time

-----------------------------------------------------------------------------
(* The satellite table and the status document. *)

SatsBefore(i) == IF i = 1 THEN InitState.sats ELSE applied[i - 1].sats

\* the processed $SAT messages that have their five fields
SatIdx == {i \in 1..Len(applied) : Kind(applied[i].msg) = "sat" /\ WellFormed(applied[i].msg)}

\* C11: processing "$SAT c id el az snr" sets the entry of channel c of the
\* satellite table to satId id, el, az, snr and slotId c, and leaves the entry
\* of every other channel as it was; a later $SAT of the same channel replaces
\* that entry only.
C11_SatSetsEntry ==
    \A i \in SatIdx :
        LET f == split(applied[i].msg)
            c == IntAt(f, 1).v
            before == SatsBefore(i)
            after == applied[i].sats
        IN  /\ DOMAIN after = DOMAIN before \cup {c}
            /\ after[c].satId = IntAt(f, 2).v
            /\ after[c].el = IntAt(f, 3).v
            /\ after[c].az = IntAt(f, 4).v
            /\ after[c].snr = IntAt(f, 5).v
            /\ after[c].slotId = c
            /\ \A d \in DOMAIN before \ {c} : after[d] = before[d]

\* the channels the processed $SAT messages have reported
ReportedChannels == {IntAt(split(applied[i].msg), 1).v : i \in SatIdx}

\* C12: the set of channels of the satellite table never shrinks, the table
\* has one entry per channel and the slotId of the entry is its key, and the
\* trackedSats list of the status document has as many entries as there are
\* distinct channels reported by the $SAT messages processed so far.
C12_TableGrowsOnly ==
    /\ \A i \in 1..Len(applied) : DOMAIN SatsBefore(i) \subseteq DOMAIN applied[i].sats
    /\ \A c \in DOMAIN tp.sats : tp.sats[c].slotId = c
    /\ Len(get_state(tp).trackedSats) = Cardinality(ReportedChannels)

-----------------------------------------------------------------------------
(* The sender and the position timer. *)

CRLF == <<CR, LF>>

\* C13: the sender writes the commands in the order in which they were put
\* on its queue (by the message handler and the position timer together),
\* each once and followed by CR LF, and at least one second passes between
\* two consecutive writes.
C13_SenderOrderAndPacing ==
    /\ Len(written) + Len(cmd_queue) = Len(cmd_log)
    /\ \A k \in 1..Len(written) : written[k].data = cmd_log[k] \o CRLF
    /\ cmd_queue = SubSeq(cmd_log, Len(written) + 1, Len(cmd_log))
    /\ \A k \in 1..(Len(written) - 1) : written[k + 1].at - written[k].at >= 1

\* commands of the handler and of the timer were written, two of them one
\* second apart
C13_Witness ==
    /\ Len(written) >= 3
    /\ \E k \in 1..Len(written) : written[k].data = T_GETPOS \o CRLF
    /\ \E k \in 1..Len(written) : written[k].data = T_GETVER \o CRLF
    /\ \E k \in 1..(Len(written) - 1) : written[k + 1].at - written[k].at = 1

\* _is_active when the timer woke up for the k-th time
ActiveAtTick(k) == IF ticks[k].seen = 0 THEN FALSE ELSE applied[ticks[k].seen].active

\* C14: at each wake-up of the 30-second timer one $GETPOS is enqueued if
\* the device is active at that time and none if it is not; two wake-ups are
\* at least 30 seconds apart; the message handler never enqueues $GETPOS.
C14_GetposIffActive ==
    /\ \A k \in 1..Len(ticks) :
          ticks[k].cmds = IF ActiveAtTick(k) THEN <<T_GETPOS>> ELSE <<>>
    /\ \A k \in 1..(Len(ticks) - 1) : ticks[k + 1].at - ticks[k].at >= 30
    /\ \A i \in 1..Len(applied) : Count(applied[i].cmds, T_GETPOS) = 0
    /\ Count(cmd_log, T_GETPOS) = Cardinality({k \in 1..Len(ticks) : ActiveAtTick(k)})

\* the timer woke up while the device was inactive, and again once it was
\* active
C14_Witness ==
    /\ Len(ticks) = 2
    /\ ~ActiveAtTick(1)
    /\ ActiveAtTick(2)
    /\ Count(cmd_queue, T_GETPOS) = 1

-----------------------------------------------------------------------------
(* The outputs. *)

\* the passes of the _writer of output o, and those that came to their end
Passes(o) == 1..Len(consumed[o])
Completed(o, k) == ~(writer[o] = "dead" /\ k = Len(consumed[o]))

IsZda(item) == item.nmea.sentence = "GPZDA"
IsGga(item) == item.nmea.sentence = "GPGGA"

\* the Gps events the NMEA writer took before its k-th pass, and up to it
GpsBefore(k) == {j \in 1..(k - 1) : consumed["nmea"][j].type = "gps"}
GpsUpTo(k) == {j \in 1..k : consumed["nmea"][j].type = "gps"}
Latest(S) == CHOOSE j \in S : \A i \in S : i <= j

\* the passes of the NMEA writer, up to the k-th, that wrote a ZDA sentence
ZdaPasses(k) ==
    {j \in 1..k : \E n \in 1..Len(emitted["nmea"][j].out) : IsZda(emitted["nmea"][j].out[n])}

\* the time since the last ZDA sentence (since the epoch if there was none),
\* when the k-th pass ran
SinceZda(k) ==
    emitted["nmea"][k].at.v
      - (IF ZdaPasses(k - 1) = {} THEN 0 ELSE emitted["nmea"][Latest(ZdaPasses(k - 1))].at.v)

\* the ZDA sentence of the j-th event the NMEA writer took
ZdaOf(j) == format_nmea_msg(format_zda(consumed["nmea"][j]))

\* C15 (as stated): a Sat event delivered to the NMEA writer produces no
\* output at all, whatever Gps events were processed before it and however
\* much time has gone by since the last ZDA.
C15_SatWritesNothing ==
    \A k \in Passes("nmea") :
        consumed["nmea"][k].type = "sat" => emitted["nmea"][k].out = <<>>

\* C15 (amended): a Sat event delivered to the NMEA writer never produces a
\* GGA sentence; what is written while it is processed is the periodic ZDA
\* sentence, of the last Gps event processed before it, when there is such
\* an event and the interval has gone by since the last ZDA, and nothing
\* otherwise.
C15_SatWritesOnlyDueZda ==
    \A k \in Passes("nmea") :
        consumed["nmea"][k].type = "sat" =>
            LET out == emitted["nmea"][k].out
                due == GpsBefore(k) # {} /\ SinceZda(k) >= 60
            IN  /\ out # <<>> => due /\ out = <<ZdaOf(Latest(GpsBefore(k)))>>
                /\ (due /\ Completed("nmea", k)) => out # <<>>

\* a Sat event whose pass wrote a ZDA sentence, and one whose pass wrote nothing
C15_Witness ==
    \E k, j \in Passes("nmea") :
        /\ consumed["nmea"][k].type = "sat"
        /\ emitted["nmea"][k].out # <<>>
        /\ consumed["nmea"][j].type = "sat"
        /\ emitted["nmea"][j].out = <<>>
        /\ Completed("nmea", j)

\* the items of a sequence of events that have the type t
OfType(evs, t) == SelectSeq(evs, LAMBDA e : e.type = t)

\* the events of o whose pass came to its end
Done(o) ==
    IF writer[o] = "dead" THEN SubSeq(consumed[o], 1, Len(consumed[o]) - 1)
    ELSE consumed[o]

\* C16: the ephemeris file receives one JSON line per Sat event, in the order
\* of the events, each flushed as soon as it is written; a Gps event
\* produces no output.
C16_OneLinePerSat ==
    /\ out_file["sat"] = [k \in 1..Len(OfType(Done("sat"), "sat")) |->
                             json_line(OfType(Done("sat"), "sat")[k])]
    /\ flushed["sat"] = Len(out_file["sat"])
    /\ \A k \in Passes("sat") :
          consumed["sat"][k].type = "gps" => emitted["sat"][k].out = <<>>

\* two different Sat events and a Gps event were taken, two lines written
C16_Witness ==
    /\ Len(out_file["sat"]) = 2
    /\ out_file["sat"][1] # out_file["sat"][2]
    /\ Len(consumed["sat"]) = 3
    /\ writer["sat"] = "running"

\* C17: the time-sync writer calls update(t) once per Gps event, in the
\* order of the events, t being the epoch time of the event; a Sat event
\* causes no update.
C17_OneUpdatePerGps ==
    /\ out_file["shm"] = [k \in 1..Len(OfType(consumed["shm"], "gps")) |->
                             shm_update(OfType(consumed["shm"], "gps")[k].time)]
    /\ \A k \in Passes("shm") :
          consumed["shm"][k].type = "sat" => emitted["shm"][k].out = <<>>

\* two Gps events of different times and a Sat event were taken
C17_Witness ==
    /\ Len(out_file["shm"]) = 2
    /\ out_file["shm"][1] # out_file["shm"][2]
    /\ Len(consumed["shm"]) = 3

\* C18: when the NMEA writer processes an event, a Gps event having been
\* processed before, and more than the interval (60 s) has gone by since the
\* last ZDA, a ZDA sentence is written; a ZDA is written only then or when
\* exactly the interval has gone by, so two consecutive ZDA are at least the
\* interval apart and none comes before a Gps event was processed; and every
\* Gps event makes exactly one GGA sentence, with or without a ZDA.
C18_ZdaCadence ==
    \A k \in Passes("nmea") :
        LET out == emitted["nmea"][k].out
            zdas == {n \in 1..Len(out) : IsZda(out[n])}
            ggas == {n \in 1..Len(out) : IsGga(out[n])}
        IN  /\ Cardinality(zdas) <= 1
            /\ zdas # {} => GpsBefore(k) # {} /\ SinceZda(k) >= 60
            /\ \A j \in ZdaPasses(k - 1) :
                  zdas # {} => emitted["nmea"][k].at.v - emitted["nmea"][j].at.v >= 60
            /\ Completed("nmea", k) =>
                  /\ (GpsBefore(k) # {} /\ SinceZda(k) > 60) => zdas # {}
                  /\ Cardinality(ggas) = IF consumed["nmea"][k].type = "gps" THEN 1 ELSE 0

\* two ZDA sentences an interval apart, one of them written for a Gps event
\* that made its GGA as well
C18_Witness ==
    /\ Cardinality(ZdaPasses(Len(consumed["nmea"]))) = 2
    /\ \E k \in Passes("nmea") :
          /\ consumed["nmea"][k].type = "gps"
          /\ Len(emitted["nmea"][k].out) = 2

\* C19: every ZDA sentence is built from the latest Gps event the NMEA writer
\* has taken from its queue up to and including the event whose pass writes
\* the ZDA: it never carries a time older than the GGA of the same pass.
C19_ZdaFromLatestGps ==
    \A k \in Passes("nmea") :
        \A n \in 1..Len(emitted["nmea"][k].out) :
            IsZda(emitted["nmea"][k].out[n]) =>
                /\ GpsUpTo(k) # {}
                /\ emitted["nmea"][k].out[n] = ZdaOf(Latest(GpsUpTo(k)))

-----------------------------------------------------------------------------
(* The survey duration of the status document. *)

\* the processed $EXTSTATUS that have their four fields, up to the n-th
\* message, and the processed $SURVEY that have their five fields
ExtstatusUpTo(n) ==
    {i \in 1..n : Kind(applied[i].msg) = "extstatus" /\ WellFormed(applied[i].msg)}
SurveyUpTo(n) ==
    {i \in 1..n : Kind(applied[i].msg) = "survey" /\ WellFormed(applied[i].msg)}

\* the survey flag as the latest $EXTSTATUS of the first n messages set it
SurveyFlag(n) ==
    IF ExtstatusUpTo(n) = {} THEN FALSE
    ELSE IntAt(split(applied[Latest(ExtstatusUpTo(n))].msg), 1).v = 1

\* the duration the latest $SURVEY of the first n messages gave
SurveySecs(n) ==
    IF SurveyUpTo(n) = {} THEN 0
    ELSE IntAt(split(applied[Latest(SurveyUpTo(n))].msg), 5).v

\* C20: a status document has the key surveySeconds exactly when the survey
\* flag, as the latest $EXTSTATUS set it, is true at the time of the read;
\* its value is then the duration of the latest $SURVEY (0 before the first).
\* Once an $EXTSTATUS has reported the survey off, the documents served after
\* it do not have the key.
C20_SurveySecondsIffSurvey ==
    \A k \in 1..Len(responses) :
        LET doc == responses[k].doc
            n == responses[k].seen
        IN  /\ ("surveySeconds" \in DOMAIN doc) = SurveyFlag(n)
            /\ doc.isSurvey = SurveyFlag(n)
            /\ SurveyFlag(n) => doc.surveySeconds = SurveySecs(n)

\* a document served during a survey with the duration of a $SURVEY, and one
\* served after an $EXTSTATUS reported the survey off
C20_Witness ==
    /\ Len(responses) = 2
    /\ "surveySeconds" \in DOMAIN responses[1].doc
    /\ responses[1].doc.surveySeconds > 0
    /\ ~("surveySeconds" \in DOMAIN responses[2].doc)
    /\ responses[2].seen = 3

-----------------------------------------------------------------------------
(* The reads of the state. *)

\* the satellite table as a list, in the order of the keys
TrackedSats(sats, order) == [i \in 1..Len(order) |-> sats[order[i]]]

\* C21: a read of the status document, anywhere among the steps of the
\* message handler, the timer, the sender and a writer and however often it
\* is made, changes nothing of the state, of the satellite table or of any
\* queue, and the document it returns has the values of the last message
\* the handler applied: it is the document of the state at hand, not one
\* made earlier.
C21_ReadsArePure ==
    /\ [](\A k \in 1..Len(responses) :
            LET doc == responses[k].doc
                n == responses[k].seen
            IN  /\ doc.isBooted = (IF n = 0 THEN FALSE ELSE applied[n].active)
                /\ doc.firmwareVersion = (IF n = 0 THEN NoStr ELSE applied[n].version)
                /\ doc.firmwareSerial = (IF n = 0 THEN NoStr ELSE applied[n].serial)
                /\ Len(doc.trackedSats) =
                      Cardinality(DOMAIN (IF n = 0 THEN InitState.sats ELSE applied[n].sats))
                /\ n = Len(applied) => doc = _encode_state(tp))
    /\ [][responses' # responses =>
            UNCHANGED <<cur, messages, tpstate_set, ready, msg_queue, tp, handler,
                        out_queue, writer, cmd_queue, wire, nlines, stream, applied,
                        consumed, now, cmd_log, senderVars, timerVars, sinkVars,
                        loopVars, formatVars>>]_vars

\* two reads of the same state, made after the handler applied two messages,
\* the timer woke up, the sender wrote a command and the writer took an event
C21_Witness ==
    /\ Len(responses) = 2
    /\ responses[1].seen = 2
    /\ responses[2].seen = 2
    /\ responses[1].doc = responses[2].doc
    /\ responses[1].doc.isBooted
    /\ Len(ticks) >= 1
    /\ Len(written) >= 1
    /\ Len(consumed["sat"]) >= 1

\* the last of the first n messages applied that has the kind k, 0 if none
LastOf(k, n) ==
    LET I == {i \in 1..n : Kind(applied[i].msg) = k}
    IN  IF I = {} THEN 0 ELSE CHOOSE i \in I : \A j \in I : j <= i

Field(i, f) == IntAt(split(applied[i].msg), f).v

\* C30: a read of the status document never sees a message that has all its
\* fields applied by half: the position, the elevation and its correction are
\* those of one $GETPOS, the time and the leap seconds those of one $CLOCK,
\* the flags of the links, the count of satellites and the state those of
\* one $STATUS, each the last of its kind among the messages applied before
\* the read, or the values of the start.
C30_SnapshotAtomic ==
    \A k \in 1..Len(responses) :
        LET doc == responses[k].doc
            n == responses[k].seen
            g == LastOf("getpos", n)
            c == LastOf("clock", n)
            t == LastOf("status", n)
        IN  /\ n <= Len(applied)
            /\ doc.location =
                  (IF g = 0
                   THEN [lat |-> Micro(0), lon |-> Micro(0), elevMetres |-> 0,
                         elevCorrWGS84 |-> 0]
                   ELSE [lat |-> Micro(Field(g, 1)), lon |-> Micro(Field(g, 2)),
                         elevMetres |-> Field(g, 3), elevCorrWGS84 |-> Field(g, 4)])
            /\ <<doc.gpsEpoch, doc.leapSeconds, doc.timeQuality>> =
                  (IF c = 0 THEN <<NoInt, NoInt, 9>>
                   ELSE <<Some(Field(c, 1)), Some(Field(c, 2)), Field(c, 3)>>)
            /\ <<doc.tenMhzBad, doc.onePPSBad, doc.antennaBad, doc.holdoverSec,
                 doc.nrTrackedSats, doc.state>> =
                  (IF t = 0 THEN <<FALSE, FALSE, FALSE, 0, 0, 0 - 1>>
                   ELSE <<Field(t, 1) # 0, Field(t, 2) # 0, Field(t, 3) # 0,
                          Field(t, 4), Field(t, 5), Field(t, 6)>>)
            /\ doc.isBooted = (n > 0)

\* a read between a $GETPOS and a $STATUS, and a read after both
C30_Witness ==
    /\ Len(responses) = 2
    /\ responses[1].seen = 1
    /\ responses[2].seen = 2
    /\ Kind(applied[1].msg) = "getpos"
    /\ Kind(applied[2].msg) = "status"
    /\ responses[1].doc.location.elevMetres = 8
    /\ responses[1].doc.state = 0 - 1
    /\ responses[2].doc.state = 0
    /\ responses[2].doc.onePPSBad

-----------------------------------------------------------------------------
(* The messages that end the handler and those that do not. *)

Recognised(msg) == Kind(msg) # "default"

\* C27: a message of a recognised tag that has all its fields is processed
\* without ending the message handler, whatever was processed before it; a
\* $SAT with its five fields sets its entry of the satellite table and makes
\* its Sat event also when no $CLOCK came before it.
C27_WellFormedNeverFatal ==
    \A i \in 1..Len(applied) :
        (Recognised(applied[i].msg) /\ WellFormed(applied[i].msg)) =>
            /\ ~applied[i].exc
            /\ (i = Len(applied) => handler # "dead")
            /\ Kind(applied[i].msg) = "sat" =>
                  /\ IntAt(split(applied[i].msg), 1).v \in DOMAIN applied[i].sats
                  /\ Len(applied[i].evs) = 1

\* C28: a processed message makes at most one command, $PROCEED or $GETVER
\* and never both; _in_bootloader is false whenever the message handler waits
\* for its next message, and the handler of the next message never leaves
\* _in_bootloader and _is_active both true for the checks that follow it.
C28_OneCommandPerMessage ==
    /\ \A i \in 1..Len(applied) :
          /\ applied[i].cmds \in {<<>>, <<T_PROCEED>>, <<T_GETVER>>}
          /\ applied[i].cmds = <<T_PROCEED>> <=> IsBoot(applied[i].msg)
    /\ ~tp.in_bootloader
    /\ (handler = "running" /\ msg_queue # <<>>) =>
          \E h \in {Handle(tp, get(msg_queue))} :
              ~(h.st.in_bootloader /\ h.st.is_active)

\* the device reports its bootloader after the agent saw it active without
\* an identity: $GETVER was sent for the first message, $PROCEED alone for
\* the second
C28_Witness ==
    /\ Len(applied) = 2
    /\ applied[1].active
    /\ applied[1].cmds = <<T_GETVER>>
    /\ IsBoot(applied[2].msg)
    /\ applied[2].cmds = <<T_PROCEED>>
    /\ handler = "running"

\* the message has a recognised tag and lacks a field its handler reads, or
\* has one that is no number where the handler parses a number
Malformed(msg) == Recognised(msg) /\ ~WellFormed(msg)

\* C23: a message of a recognised tag whose fields are too few, or are no
\* numbers where a number is parsed, ends the message handler: it is the last
\* message applied and makes no event and no command, and from then on no
\* message is applied, the state stays as it is, no event is handed to an
\* output and no command is enqueued, whatever arrives.
C23_MalformedIsFatal ==
    /\ [](\A i \in 1..Len(applied) :
            Malformed(applied[i].msg) =>
                /\ applied[i].exc
                /\ i = Len(applied)
                /\ applied[i].evs = <<>>
                /\ applied[i].cmds = <<>>
                /\ handler = "dead")
    /\ [][handler = "dead" =>
            /\ handler' = "dead"
            /\ applied' = applied
            /\ tp' = tp
            /\ cmd_log' = cmd_log
            /\ \A o \in OutputSet : Handed(o)' = Handed(o)]_vars

\* a $CLOCK with one field was applied, and the message that arrived after
\* it stays in the queue of the dead handler
C23_Witness ==
    /\ Len(applied) = 1
    /\ Kind(applied[1].msg) = "clock"
    /\ Malformed(applied[1].msg)
    /\ applied[1].exc
    /\ handler = "dead"
    /\ msg_queue # <<>>

-----------------------------------------------------------------------------
(* The diagnostics of $STATUS. *)

\* the five values _status compares, as $STATUS message i gives them, and as
\* they are stored before message i is processed: those of the last $STATUS
\* before it, or those of the start
StatusValues(i) ==
    [ a \in {"10mhz", "1pps", "antenna", "sats", "state"} |->
        IF a = "10mhz" THEN Bit(Field(i, 1) # 0)
        ELSE IF a = "1pps" THEN Bit(Field(i, 2) # 0)
        ELSE IF a = "antenna" THEN Bit(Field(i, 3) # 0)
        ELSE IF a = "sats" THEN Field(i, 5)
        ELSE Field(i, 6) ]

StoredValues(i) ==
    IF LastOf("status", i - 1) = 0
    THEN [ a \in {"10mhz", "1pps", "antenna", "sats", "state"} |->
             IF a = "sats" THEN 0 ELSE IF a = "state" THEN 0 - 1 ELSE 0 ]
    ELSE StatusValues(LastOf("status", i - 1))

\* C22: processing a $STATUS logs a line about the 10 MHz flag, the 1PPS
\* flag, the antenna flag, the count of tracked satellites or the state
\* exactly when the new value differs from the value stored before the
\* message, one line at most for each; a $STATUS that has the fields of the
\* $STATUS before it logs no line.
C22_LogsOnChangeOnly ==
    \A i \in 1..Len(applied) :
        (Kind(applied[i].msg) = "status" /\ WellFormed(applied[i].msg)) =>
            LET logs == applied[i].logs
                p == LastOf("status", i - 1)
            IN  /\ \A a \in DOMAIN StatusValues(i) :
                      /\ (\E k \in 1..Len(logs) : logs[k].about = a)
                            <=> StatusValues(i)[a] # StoredValues(i)[a]
                      /\ Cardinality({k \in 1..Len(logs) : logs[k].about = a}) <= 1
                /\ \A k \in 1..Len(logs) :
                      /\ logs[k].from = StoredValues(i)[logs[k].about]
                      /\ logs[k].to = StatusValues(i)[logs[k].about]
                /\ (p # 0 /\ split(applied[p].msg) = split(applied[i].msg)) => logs = <<>>

\* a first $STATUS that logs three lines, a second that changes a flag and
\* the state and logs two, and a repeat of the second that logs none
C22_Witness ==
    /\ Len(applied) = 3
    /\ Len(applied[1].logs) = 3
    /\ Len(applied[2].logs) = 2
    /\ applied[3].msg = applied[2].msg
    /\ applied[3].logs = <<>>

-----------------------------------------------------------------------------
(* The messages of no known tag. *)

\* C24: a message whose tag is none of the eight known ones, with or without
\* the '$' at its start, goes to the default handler: the pass that processes
\* it leaves every field of the state and the satellite table as they were,
\* hands no event to any output, and the handler goes on to the next message.
C24_UnknownTagIsHarmless ==
    /\ [](\A i \in 1..Len(applied) :
            Kind(applied[i].msg) = "default" =>
                /\ ~applied[i].exc
                /\ applied[i].evs = <<>>
                /\ (i = Len(applied) => handler = "running"))
    /\ [][(Len(applied') = Len(applied) + 1
            /\ Kind(applied'[Len(applied')].msg) = "default") =>
              /\ tp' = tp
              /\ out_queue' = out_queue
              /\ handler' = "running"]_vars

\* a line without the '$' and a line of an unknown tag were processed, and a
\* $STATUS after them
C24_Witness ==
    /\ Len(applied) = 3
    /\ applied[1].msg[1] # "$"
    /\ Kind(applied[1].msg) = "default"
    /\ applied[2].msg[1] = "$"
    /\ Kind(applied[2].msg) = "default"
    /\ Kind(applied[3].msg) = "status"
    /\ ~applied[3].exc
    /\ applied[3].active

-----------------------------------------------------------------------------
(* The framing of an NMEA sentence. *)

HexValue(c) == CHOOSE d \in 0..15 : HexDigits[d + 1] = c

IsHexDigit(c) == \E d \in 0..15 : HexDigits[d + 1] = c

\* C26: the sentence written for a body is '$', the body, '*', two
\* hexadecimal digits whose value is the XOR of the character codes of the
\* body, and a line feed; the digits are two also when the XOR is below 16.
C26_TwoHexDigits ==
    sentence # <<>> =>
        LET n == Len(nmea_body)
        IN  /\ Len(sentence) = n + 5
            /\ sentence[1] = "$"
            /\ SubSeq(sentence, 2, n + 1) = nmea_body
            /\ sentence[n + 2] = "*"
            /\ IsHexDigit(sentence[n + 3])
            /\ IsHexDigit(sentence[n + 4])
            /\ 16 * HexValue(sentence[n + 3]) + HexValue(sentence[n + 4])
                  = __nmea_chksum(nmea_body)
            /\ sentence[n + 5] = LF

-----------------------------------------------------------------------------
(* The loss of the serial connection. *)

-----------------------------------------------------------------------------
(* The sender under fair scheduling. *)

\* C29: with the transport open and the sender task scheduled fairly, every
\* command put on the command queue, by the message handler or by the
\* position timer, is written to the device in the end, as the command it
\* was and in its place, also when commands are put faster than one a second.
C29_EveryCommandWritten ==
    /\ \A n \in 1..(MaxSenderLines + MaxTimerTicks) :
          (Len(cmd_log) >= n) ~> (Len(written) >= n)
    /\ [](\A k \in 1..Len(written) :
            /\ k <= Len(cmd_log)
            /\ written[k].data = cmd_log[k] \o <<CR, LF>>)

\* commands wait in the queue while the sender sleeps after a write
C29_Witness ==
    /\ sender = "sleeping"
    /\ now < sender_wake
    /\ Len(written) >= 1
    /\ Len(cmd_queue) >= 2

====
